---- MODULE Spec2Model ----
(***************************************************************************)
(* AMD PMU virtualization backend (xen/arch/x86/hvm/svm/vpmu.c).           *)
(*                                                                         *)
(* Encoding.  A 64-bit MSR value is the set of its set bit positions, so   *)
(* 0 is {} and (x | 1<<40) is x \cup {40}.  An MSR address is its offset   *)
(* from 0xC0010000 (the base of the K7 and family 15h PMU MSR ranges; the  *)
(* base is even, so the parity test of get_pmu_reg_type is kept).  The C   *)
(* arrays are 0-based, the sequences here 1-based: C's index i is i+1.     *)
(* Each virtual CPU runs on a physical CPU of its own, so the hardware     *)
(* MSR file is kept per virtual CPU.                                       *)
(***************************************************************************)
EXTENDS Naturals, Integers, Sequences, FiniteSets

\* ------------------------------------------------------------------ bounds
\* Number of virtual CPUs of the model.
NumVcpus == 2
\* The guest accesses the control registers of bank indices 0 .. MaxIdx-1.
MaxIdx == 2

\* ------------------------------------------------------- program constants
MSR_F10H_EVNTSEL_GO_SHIFT == 40
MSR_F10H_EVNTSEL_EN_SHIFT == 22
F10H_NUM_COUNTERS == 4
F15H_NUM_COUNTERS == 6

MSR_K7_EVNTSEL0 == 0
MSR_K7_EVNTSEL1 == MSR_K7_EVNTSEL0 + 1
MSR_K7_EVNTSEL2 == MSR_K7_EVNTSEL0 + 2
MSR_K7_EVNTSEL3 == MSR_K7_EVNTSEL0 + 3
MSR_K7_PERFCTR0 == 4
MSR_K7_PERFCTR1 == MSR_K7_PERFCTR0 + 1
MSR_K7_PERFCTR2 == MSR_K7_PERFCTR0 + 2
MSR_K7_PERFCTR3 == MSR_K7_PERFCTR0 + 3
MSR_AMD_FAM15H_EVNTSEL0 == 512
MSR_AMD_FAM15H_PERFCTR0 == MSR_AMD_FAM15H_EVNTSEL0 + 1
MSR_AMD_FAM15H_EVNTSEL1 == MSR_AMD_FAM15H_EVNTSEL0 + 2
MSR_AMD_FAM15H_PERFCTR1 == MSR_AMD_FAM15H_EVNTSEL0 + 3
MSR_AMD_FAM15H_EVNTSEL2 == MSR_AMD_FAM15H_EVNTSEL0 + 4
MSR_AMD_FAM15H_PERFCTR2 == MSR_AMD_FAM15H_EVNTSEL0 + 5
MSR_AMD_FAM15H_EVNTSEL3 == MSR_AMD_FAM15H_EVNTSEL0 + 6
MSR_AMD_FAM15H_PERFCTR3 == MSR_AMD_FAM15H_EVNTSEL0 + 7
MSR_AMD_FAM15H_EVNTSEL4 == MSR_AMD_FAM15H_EVNTSEL0 + 8
MSR_AMD_FAM15H_PERFCTR4 == MSR_AMD_FAM15H_EVNTSEL0 + 9
MSR_AMD_FAM15H_EVNTSEL5 == MSR_AMD_FAM15H_EVNTSEL0 + 10
MSR_AMD_FAM15H_PERFCTR5 == MSR_AMD_FAM15H_EVNTSEL0 + 11

AMD_F10H_COUNTERS ==
    << MSR_K7_PERFCTR0, MSR_K7_PERFCTR1, MSR_K7_PERFCTR2, MSR_K7_PERFCTR3 >>
AMD_F10H_CTRLS ==
    << MSR_K7_EVNTSEL0, MSR_K7_EVNTSEL1, MSR_K7_EVNTSEL2, MSR_K7_EVNTSEL3 >>
AMD_F15H_COUNTERS ==
    << MSR_AMD_FAM15H_PERFCTR0, MSR_AMD_FAM15H_PERFCTR1,
       MSR_AMD_FAM15H_PERFCTR2, MSR_AMD_FAM15H_PERFCTR3,
       MSR_AMD_FAM15H_PERFCTR4, MSR_AMD_FAM15H_PERFCTR5 >>
AMD_F15H_CTRLS ==
    << MSR_AMD_FAM15H_EVNTSEL0, MSR_AMD_FAM15H_EVNTSEL1,
       MSR_AMD_FAM15H_EVNTSEL2, MSR_AMD_FAM15H_EVNTSEL3,
       MSR_AMD_FAM15H_EVNTSEL4, MSR_AMD_FAM15H_EVNTSEL5 >>

MSR_TYPE_COUNTER == "MSR_TYPE_COUNTER"
MSR_TYPE_CTRL == "MSR_TYPE_CTRL"
MSR_TYPE_NONE == "unsupported"

MSR_INTERCEPT_NONE == "MSR_INTERCEPT_NONE"
MSR_INTERCEPT_WRITE == "MSR_INTERCEPT_WRITE"
MSR_INTERCEPT_RW == "MSR_INTERCEPT_RW"

VPMU_CONTEXT_ALLOCATED == "CONTEXT_ALLOCATED"
VPMU_CONTEXT_LOADED == "CONTEXT_LOADED"
VPMU_CONTEXT_SAVE == "CONTEXT_SAVE"
VPMU_RUNNING == "RUNNING"
VPMU_FROZEN == "FROZEN"

PMU_OWNER_NONE == "PMU_OWNER_NONE"
PMU_OWNER_XENOPROF == "PMU_OWNER_XENOPROF"
PMU_OWNER_HVM == "PMU_OWNER_HVM"

XENPMU_MODE_OFF == "XENPMU_MODE_OFF"
XENPMU_MODE_SELF == "XENPMU_MODE_SELF"

\* A null pointer; a null array pointer; the context pointer when null, and
\* after xfree() has released its storage (the contents are gone).
NULL == "NULL"
NULL_ARRAY == << >>
NULL_CONTEXT == [alloc |-> "NULL", counters |-> << >>, ctrls |-> << >>]
FREED_CONTEXT == [alloc |-> "FREED", counters |-> << >>, ctrls |-> << >>]

VCPUS == 1 .. NumVcpus

\* --------------------------------------------------------------- variables
VARIABLES
    cpu_family,            \* current_cpu_data.x86
    vpmu_mode,             \* the generic front-end's mode switch
    num_counters,          \* static unsigned int num_counters
    counters,              \* static const u32 *counters (NULL or an array)
    ctrls,                 \* static const u32 *ctrls
    k7_counters_mirrored,  \* static bool_t k7_counters_mirrored
    hvm,                   \* has_hvm_container_vcpu(v), per vCPU
    vpmu,                  \* struct vpmu_struct, per vCPU
    msr_intercept,         \* the SVM MSR permission map, per vCPU
    msr_hw,                \* the PMU MSRs of the vCPU's physical CPU
    pmu_owner,             \* the Ownership Token's holder
    acq,                   \* per vCPU: successful acquires minus releases
    call,                  \* the last call into the backend and its result
    track,                 \* whether lastwr is recorded
    lastwr                 \* per vCPU: the last handle_write call

layout == << cpu_family, vpmu_mode, num_counters, counters, ctrls,
             k7_counters_mirrored, hvm, track >>
vars == << cpu_family, vpmu_mode, num_counters, counters, ctrls,
           k7_counters_mirrored, hvm, vpmu, msr_intercept, msr_hw,
           pmu_owner, acq, call, track, lastwr >>

\* ------------------------------------------------------ bit-level helpers
is_guest_mode(msr) == MSR_F10H_EVNTSEL_GO_SHIFT \in msr
is_pmu_enabled(msr) == MSR_F10H_EVNTSEL_EN_SHIFT \in msr
set_guest_mode(msr) == msr \cup {MSR_F10H_EVNTSEL_GO_SHIFT}

vpmu_is_set(vp, flag) == flag \in vp.flags
vpmu_set(vp, flag) == [vp EXCEPT !.flags = @ \cup {flag}]
vpmu_reset(vp, flag) == [vp EXCEPT !.flags = @ \ {flag}]
vpmu_clear(vp) == [vp EXCEPT !.flags = {}]

is_msr_bitmap_on(vp) == vp.priv_context # NULL
msr_bitmap_on(vp) == [vp EXCEPT !.priv_context = "-1L"]
msr_bitmap_off(vp) == [vp EXCEPT !.priv_context = NULL]

get_pmu_reg_type(addr) ==
    IF addr >= MSR_K7_EVNTSEL0 /\ addr <= MSR_K7_EVNTSEL3
    THEN MSR_TYPE_CTRL
    ELSE IF addr >= MSR_K7_PERFCTR0 /\ addr <= MSR_K7_PERFCTR3
    THEN MSR_TYPE_COUNTER
    ELSE IF addr >= MSR_AMD_FAM15H_EVNTSEL0 /\ addr <= MSR_AMD_FAM15H_PERFCTR5
    THEN (IF addr % 2 = 1 THEN MSR_TYPE_COUNTER ELSE MSR_TYPE_CTRL)
    ELSE MSR_TYPE_NONE

get_fam15h_addr(addr) ==
    CASE addr = MSR_K7_PERFCTR0 -> MSR_AMD_FAM15H_PERFCTR0
      [] addr = MSR_K7_PERFCTR1 -> MSR_AMD_FAM15H_PERFCTR1
      [] addr = MSR_K7_PERFCTR2 -> MSR_AMD_FAM15H_PERFCTR2
      [] addr = MSR_K7_PERFCTR3 -> MSR_AMD_FAM15H_PERFCTR3
      [] addr = MSR_K7_EVNTSEL0 -> MSR_AMD_FAM15H_EVNTSEL0
      [] addr = MSR_K7_EVNTSEL1 -> MSR_AMD_FAM15H_EVNTSEL1
      [] addr = MSR_K7_EVNTSEL2 -> MSR_AMD_FAM15H_EVNTSEL2
      [] addr = MSR_K7_EVNTSEL3 -> MSR_AMD_FAM15H_EVNTSEL3
      [] OTHER -> addr


\* ------------------------------------------------------------- hardware
\* The PMU MSRs the processor implements.  A family 15h processor has the
\* six-register bank and decodes the four legacy K7 pairs as aliases of its
\* first four pairs; every other family has the legacy K7 bank only.
HwRegs(family) ==
    IF family = 21
    THEN {AMD_F15H_COUNTERS[i] : i \in 1 .. F15H_NUM_COUNTERS}
         \cup {AMD_F15H_CTRLS[i] : i \in 1 .. F15H_NUM_COUNTERS}
    ELSE {AMD_F10H_COUNTERS[i] : i \in 1 .. F10H_NUM_COUNTERS}
         \cup {AMD_F10H_CTRLS[i] : i \in 1 .. F10H_NUM_COUNTERS}

HwAddr(msr) == IF cpu_family = 21 THEN get_fam15h_addr(msr) ELSE msr

rdmsrl(hw, msr) == hw[HwAddr(msr)]
wrmsrl(hw, msr, val) == [hw EXCEPT ![HwAddr(msr)] = val]

\* What svm_intercept_msr() records for one MSR of one vCPU.
svm_intercept_msr(ic, msr, mode) == [ic EXCEPT ![msr] = mode]

\* ---------------------------------------------------- the Ownership Token
\* acquire: the token is claimed when free, kept when the category holds
\* it already, refused (no side effect) when another category holds it.
acquire_pmu_ownership(owner, category) ==
    [ok    |-> owner \in {PMU_OWNER_NONE, category},
     owner |-> IF owner = PMU_OWNER_NONE THEN category ELSE owner]

\* release: the token is released.  Releasing a token the caller does not
\* hold is undefined: it is left alone or dropped.
release_pmu_ownship(owner, category) ==
    IF owner = category THEN {PMU_OWNER_NONE} ELSE {owner, PMU_OWNER_NONE}

\* ------------------------------------------------------ boot-time layout
PAGE_SIZE == 4096
\* sizeof(struct xen_pmu_data) and sizeof(uint64_t), in bytes.
SIZEOF_XEN_PMU_DATA == 128
SIZEOF_UINT64 == 8

EINVAL == 22
ENOMEM == 12
ENOSPC == 28

\* The statics before amd_vpmu_init() runs.
LayoutStatics ==
    [ret |-> 0, num_counters |-> 0, counters |-> NULL_ARRAY,
     ctrls |-> NULL_ARRAY,
     k7_counters_mirrored |-> FALSE]

\* Faulty variant: family 16h is missing from the switch.
amd_vpmu_init_NoFam16h(family, page) ==
    LET sel ==
          IF family = 21
          THEN [LayoutStatics EXCEPT !.num_counters = F15H_NUM_COUNTERS,
                                     !.counters = AMD_F15H_COUNTERS,
                                     !.ctrls = AMD_F15H_CTRLS,
                                     !.k7_counters_mirrored = TRUE]
          ELSE IF family \in {16, 18, 20}
          THEN [LayoutStatics EXCEPT !.num_counters = F10H_NUM_COUNTERS,
                                     !.counters = AMD_F10H_COUNTERS,
                                     !.ctrls = AMD_F10H_CTRLS,
                                     !.k7_counters_mirrored = FALSE]
          ELSE [LayoutStatics EXCEPT !.ret = 0 - EINVAL]
    IN  IF sel.ret # 0 THEN sel
        ELSE IF SIZEOF_XEN_PMU_DATA + 2 * SIZEOF_UINT64 * sel.num_counters
                > page
        THEN [sel EXCEPT !.counters = NULL_ARRAY, !.ctrls = NULL_ARRAY,
                         !.num_counters = 0, !.ret = 0 - ENOSPC]
        ELSE sel

amd_vpmu_init(family, page) ==
    LET sel ==
          IF family = 21
          THEN [LayoutStatics EXCEPT !.num_counters = F15H_NUM_COUNTERS,
                                     !.counters = AMD_F15H_COUNTERS,
                                     !.ctrls = AMD_F15H_CTRLS,
                                     !.k7_counters_mirrored = TRUE]
          ELSE IF family \in {16, 18, 20, 22}
          THEN [LayoutStatics EXCEPT !.num_counters = F10H_NUM_COUNTERS,
                                     !.counters = AMD_F10H_COUNTERS,
                                     !.ctrls = AMD_F10H_CTRLS,
                                     !.k7_counters_mirrored = FALSE]
          ELSE [LayoutStatics EXCEPT !.ret = 0 - EINVAL]
    IN  IF sel.ret # 0 THEN sel
        ELSE IF SIZEOF_XEN_PMU_DATA + 2 * SIZEOF_UINT64 * sel.num_counters
                > page
        THEN [sel EXCEPT !.counters = NULL_ARRAY, !.ctrls = NULL_ARRAY,
                         !.num_counters = 0, !.ret = 0 - ENOSPC]
        ELSE sel

\* ------------------------------------------------- per-vCPU machine state
\* What one handler running on vCPU v reads and writes: the vCPU's
\* vpmu_struct, its intercept map, its physical CPU's MSRs, the token, and
\* the vCPU's balance of token acquisitions.
Machine(v) ==
    [vp |-> vpmu[v], ic |-> msr_intercept[v], hw |-> msr_hw[v],
     owner |-> pmu_owner, acq |-> acq[v], ret |-> 0, denied |-> FALSE]

counter_regs(vp) == vp.context.counters
ctrl_regs(vp) == vp.context.ctrls

RECURSIVE set_msr_bitmap_loop(_, _)
set_msr_bitmap_loop(ic, i) ==
    IF i > num_counters THEN ic
    ELSE set_msr_bitmap_loop(
             svm_intercept_msr(
                 svm_intercept_msr(ic, counters[i], MSR_INTERCEPT_NONE),
                 ctrls[i], MSR_INTERCEPT_WRITE),
             i + 1)

amd_vpmu_set_msr_bitmap(m) ==
    [m EXCEPT !.ic = set_msr_bitmap_loop(m.ic, 1),
              !.vp = msr_bitmap_on(m.vp)]

RECURSIVE unset_msr_bitmap_loop(_, _)
unset_msr_bitmap_loop(ic, i) ==
    IF i > num_counters THEN ic
    ELSE unset_msr_bitmap_loop(
             svm_intercept_msr(
                 svm_intercept_msr(ic, counters[i], MSR_INTERCEPT_RW),
                 ctrls[i], MSR_INTERCEPT_RW),
             i + 1)

amd_vpmu_unset_msr_bitmap(m) ==
    [m EXCEPT !.ic = unset_msr_bitmap_loop(m.ic, 1),
              !.vp = msr_bitmap_off(m.vp)]

RECURSIVE context_load_loop(_, _, _)
context_load_loop(hw, vp, i) ==
    IF i > num_counters THEN hw
    ELSE context_load_loop(
             wrmsrl(wrmsrl(hw, counters[i], counter_regs(vp)[i]),
                    ctrls[i], ctrl_regs(vp)[i]),
             vp, i + 1)

context_load(m) == [m EXCEPT !.hw = context_load_loop(m.hw, m.vp, 1)]

RECURSIVE load_ctrls_loop(_, _, _)
load_ctrls_loop(hw, vp, i) ==
    IF i > num_counters THEN hw
    ELSE load_ctrls_loop(wrmsrl(hw, ctrls[i], ctrl_regs(vp)[i]), vp, i + 1)

\* Faulty variant: load always takes the full path.
amd_vpmu_load_AlwaysFull(m) ==
    context_load(
        [m EXCEPT !.vp = vpmu_set(vpmu_reset(m.vp, VPMU_FROZEN),
                                  VPMU_CONTEXT_LOADED)])

amd_vpmu_load_m(m) ==
    LET m1 == [m EXCEPT !.vp = vpmu_reset(m.vp, VPMU_FROZEN)]
    IN  IF vpmu_is_set(m1.vp, VPMU_CONTEXT_LOADED)
        THEN [m1 EXCEPT !.hw = load_ctrls_loop(m1.hw, m1.vp, 1)]
        ELSE context_load([m1 EXCEPT !.vp = vpmu_set(m1.vp, VPMU_CONTEXT_LOADED)])

RECURSIVE context_save_loop(_, _, _)
context_save_loop(regs, hw, i) ==
    IF i > num_counters THEN regs
    ELSE context_save_loop([regs EXCEPT ![i] = rdmsrl(hw, counters[i])],
                           hw, i + 1)

context_save(m) ==
    [m EXCEPT !.vp.context.counters =
                  context_save_loop(counter_regs(m.vp), m.hw, 1)]

RECURSIVE stop_ctrls_loop(_, _)
stop_ctrls_loop(hw, i) ==
    IF i > num_counters THEN hw
    ELSE stop_ctrls_loop(wrmsrl(hw, ctrls[i], {}), i + 1)

\* Faulty variant: the freeze path copies the counters out as well.
amd_vpmu_save_FreezeCopies(m, is_hvm) ==
    IF ~vpmu_is_set(m.vp, VPMU_CONTEXT_SAVE)
    THEN LET m1 == context_save(m)
         IN  [m1 EXCEPT !.vp = vpmu_set(m1.vp, VPMU_FROZEN),
                        !.hw = stop_ctrls_loop(m1.hw, 1),
                        !.ret = 0]
    ELSE IF ~vpmu_is_set(m.vp, VPMU_CONTEXT_LOADED)
    THEN [m EXCEPT !.ret = 0]
    ELSE [context_save(m) EXCEPT !.ret = 1]

\* Faulty variant: the forced path does not check CONTEXT_LOADED.
amd_vpmu_save_NoLoadedCheck(m, is_hvm) ==
    IF ~vpmu_is_set(m.vp, VPMU_CONTEXT_SAVE)
    THEN [m EXCEPT !.vp = vpmu_set(m.vp, VPMU_FROZEN),
                   !.hw = stop_ctrls_loop(m.hw, 1),
                   !.ret = 0]
    ELSE [context_save(m) EXCEPT !.ret = 1]

\* Faulty variant: the forced path returns Saved without copying the counters.
amd_vpmu_save_NoCopy(m, is_hvm) ==
    IF ~vpmu_is_set(m.vp, VPMU_CONTEXT_SAVE)
    THEN [m EXCEPT !.vp = vpmu_set(m.vp, VPMU_FROZEN),
                   !.hw = stop_ctrls_loop(m.hw, 1),
                   !.ret = 0]
    ELSE IF ~vpmu_is_set(m.vp, VPMU_CONTEXT_LOADED)
    THEN [m EXCEPT !.ret = 0]
    ELSE [m EXCEPT !.ret = 1]

\* Faulty variant: the freeze clears RUNNING and gives the token back.
amd_vpmu_save_FreezeStops(m, is_hvm) ==
    IF ~vpmu_is_set(m.vp, VPMU_CONTEXT_SAVE)
    THEN [m EXCEPT !.vp = vpmu_reset(vpmu_set(m.vp, VPMU_FROZEN),
                                     VPMU_RUNNING),
                   !.hw = stop_ctrls_loop(m.hw, 1),
                   !.owner = IF vpmu_is_set(m.vp, VPMU_RUNNING)
                             THEN PMU_OWNER_NONE ELSE @,
                   !.acq = IF vpmu_is_set(m.vp, VPMU_RUNNING)
                           THEN @ - 1 ELSE @,
                   !.ret = 0]
    ELSE IF ~vpmu_is_set(m.vp, VPMU_CONTEXT_LOADED)
    THEN [m EXCEPT !.ret = 0]
    ELSE LET m1 == context_save(m)
             m2 == IF /\ ~vpmu_is_set(m1.vp, VPMU_RUNNING)
                      /\ is_hvm
                      /\ is_msr_bitmap_on(m1.vp)
                   THEN amd_vpmu_unset_msr_bitmap(m1)
                   ELSE m1
         IN  [m2 EXCEPT !.ret = 1]

amd_vpmu_save_m(m, is_hvm) ==
    IF ~vpmu_is_set(m.vp, VPMU_CONTEXT_SAVE)
    THEN [m EXCEPT !.vp = vpmu_set(m.vp, VPMU_FROZEN),
                   !.hw = stop_ctrls_loop(m.hw, 1),
                   !.ret = 0]
    ELSE IF ~vpmu_is_set(m.vp, VPMU_CONTEXT_LOADED)
    THEN [m EXCEPT !.ret = 0]
    ELSE LET m1 == context_save(m)
             m2 == IF /\ ~vpmu_is_set(m1.vp, VPMU_RUNNING)
                      /\ is_hvm
                      /\ is_msr_bitmap_on(m1.vp)
                   THEN amd_vpmu_unset_msr_bitmap(m1)
                   ELSE m1
         IN  [m2 EXCEPT !.ret = 1]

RECURSIVE context_update_loop(_, _, _, _)
context_update_loop(vp, msr, msr_content, i) ==
    IF i > num_counters THEN vp
    ELSE IF msr = ctrls[i]
    THEN [vp EXCEPT !.context.ctrls[i] = msr_content]
    ELSE IF msr = counters[i]
    THEN [vp EXCEPT !.context.counters[i] = msr_content]
    ELSE context_update_loop(vp, msr, msr_content, i + 1)

\* Faulty variant: a legacy address is not redirected to the extended bank.
context_update_NoMirror(m, msr, msr_content) ==
    [m EXCEPT !.vp = context_update_loop(m.vp, msr, msr_content, 1)]

context_update(m, msr, msr_content) ==
    LET a == IF /\ k7_counters_mirrored
                /\ msr >= MSR_K7_EVNTSEL0 /\ msr <= MSR_K7_PERFCTR3
             THEN get_fam15h_addr(msr)
             ELSE msr
    IN  [m EXCEPT !.vp = context_update_loop(m.vp, a, msr_content, 1)]

\* ------------------------------------------------------ amd_vpmu_do_wrmsr
\* Faulty variant: the guest-only bit is never forced.
WrContent_NoGuestMode(is_hvm, msr, msr_content) == msr_content

\* "For all counters, enable guest only mode for HVM guest".
WrContent(is_hvm, msr, msr_content) ==
    IF /\ is_hvm
       /\ get_pmu_reg_type(msr) = MSR_TYPE_CTRL
       /\ ~is_guest_mode(msr_content)
    THEN set_guest_mode(msr_content)
    ELSE msr_content

\* Faulty variant: a refused acquisition is not checked, the write goes on.
WrFirstCounter_IgnoreDenial(m, is_hvm, msr, msr_content) ==
    IF /\ get_pmu_reg_type(msr) = MSR_TYPE_CTRL
       /\ is_pmu_enabled(msr_content)
       /\ ~vpmu_is_set(m.vp, VPMU_RUNNING)
    THEN LET a == acquire_pmu_ownership(m.owner, PMU_OWNER_HVM)
         IN  IF ~a.ok
             THEN m
             ELSE [m EXCEPT !.owner = a.owner,
                            !.acq = @ + 1,
                            !.vp = vpmu_set(m.vp, VPMU_RUNNING)]
    ELSE m

\* "check if the first counter is enabled"; denied is the early return.
WrFirstCounter(m, is_hvm, msr, msr_content) ==
    IF /\ get_pmu_reg_type(msr) = MSR_TYPE_CTRL
       /\ is_pmu_enabled(msr_content)
       /\ ~vpmu_is_set(m.vp, VPMU_RUNNING)
    THEN LET a == acquire_pmu_ownership(m.owner, PMU_OWNER_HVM)
         IN  IF ~a.ok
             THEN [m EXCEPT !.denied = TRUE]
             ELSE LET m1 == [m EXCEPT !.owner = a.owner,
                                      !.acq = @ + 1,
                                      !.vp = vpmu_set(m.vp, VPMU_RUNNING)]
                  IN  IF is_hvm /\ is_msr_bitmap_on(m1.vp)
                      THEN amd_vpmu_set_msr_bitmap(m1)
                      ELSE m1
    ELSE m

\* Faulty variant: RUNNING is cleared but the token is not released.
WrStopCounter_NoRelease(m, is_hvm, msr, msr_content, released) ==
    IF /\ get_pmu_reg_type(msr) = MSR_TYPE_CTRL
       /\ ~is_pmu_enabled(msr_content)
       /\ vpmu_is_set(m.vp, VPMU_RUNNING)
    THEN [m EXCEPT !.vp = vpmu_reset(m.vp, VPMU_RUNNING)]
    ELSE m

\* Faulty variant: the token is released but RUNNING stays set.
WrStopCounter_KeepsRunning(m, is_hvm, msr, msr_content, released) ==
    IF /\ get_pmu_reg_type(msr) = MSR_TYPE_CTRL
       /\ ~is_pmu_enabled(msr_content)
       /\ vpmu_is_set(m.vp, VPMU_RUNNING)
    THEN [m EXCEPT !.owner = released, !.acq = @ - 1]
    ELSE m

\* "stop saving & restore if guest stops first counter"; released is the
\* holder release_pmu_ownship() leaves.
WrStopCounter(m, is_hvm, msr, msr_content, released) ==
    IF /\ get_pmu_reg_type(msr) = MSR_TYPE_CTRL
       /\ ~is_pmu_enabled(msr_content)
       /\ vpmu_is_set(m.vp, VPMU_RUNNING)
    THEN LET m1 == [m EXCEPT !.vp = vpmu_reset(m.vp, VPMU_RUNNING)]
             m2 == IF is_hvm /\ is_msr_bitmap_on(m1.vp)
                   THEN amd_vpmu_unset_msr_bitmap(m1)
                   ELSE m1
         IN  [m2 EXCEPT !.owner = released, !.acq = @ - 1]
    ELSE m

\* Faulty variant: a frozen context is taken to be in hardware.
LoadIfNeeded_IgnoreFrozen(m) ==
    IF ~vpmu_is_set(m.vp, VPMU_CONTEXT_LOADED)
    THEN [context_load(m) EXCEPT !.vp = vpmu_set(m.vp, VPMU_CONTEXT_LOADED)]
    ELSE m

\* Faulty variant: the flags are updated but the shadow is not pushed.
LoadIfNeeded_NoLoad(m) ==
    IF \/ ~vpmu_is_set(m.vp, VPMU_CONTEXT_LOADED)
       \/ vpmu_is_set(m.vp, VPMU_FROZEN)
    THEN [m EXCEPT !.vp = vpmu_reset(vpmu_set(m.vp, VPMU_CONTEXT_LOADED),
                                     VPMU_FROZEN)]
    ELSE m

\* The load both trap handlers do first when the context is not in hardware.
LoadIfNeeded(m) ==
    IF \/ ~vpmu_is_set(m.vp, VPMU_CONTEXT_LOADED)
       \/ vpmu_is_set(m.vp, VPMU_FROZEN)
    THEN LET m1 == context_load(m)
         IN  [m1 EXCEPT !.vp = vpmu_reset(vpmu_set(m1.vp, VPMU_CONTEXT_LOADED),
                                          VPMU_FROZEN)]
    ELSE m

\* Faulty variant: the value is stored in the shadow but not written to the
\* hardware register.
amd_vpmu_do_wrmsr_NoHwWrite(m, is_hvm, msr, guest_content, released) ==
    LET msr_content == WrContent(is_hvm, msr, guest_content)
        m1 == WrFirstCounter(m, is_hvm, msr, msr_content)
    IN  IF m1.denied
        THEN [m1 EXCEPT !.ret = 1]
        ELSE LET m2 == WrStopCounter(m1, is_hvm, msr, msr_content, released)
                 m3 == LoadIfNeeded(m2)
                 m4 == context_update(m3, msr, msr_content)
             IN  [m4 EXCEPT !.ret = 1]

amd_vpmu_do_wrmsr_m(m, is_hvm, msr, guest_content, released) ==
    LET msr_content == WrContent(is_hvm, msr, guest_content)
        m1 == WrFirstCounter(m, is_hvm, msr, msr_content)
    IN  IF m1.denied
        THEN [m1 EXCEPT !.ret = 1]
        ELSE LET m2 == WrStopCounter(m1, is_hvm, msr, msr_content, released)
                 m3 == LoadIfNeeded(m2)
                 m4 == context_update(m3, msr, msr_content)
             IN  [m4 EXCEPT !.hw = wrmsrl(m4.hw, msr, msr_content),
                            !.ret = 1]

amd_vpmu_do_rdmsr_m(m) == [LoadIfNeeded(m) EXCEPT !.ret = 1]

\* Faulty variant: the token is not returned at teardown.
amd_vpmu_destroy_NoRelease(m, is_hvm, released) ==
    LET m1 == IF is_hvm /\ is_msr_bitmap_on(m.vp)
              THEN amd_vpmu_unset_msr_bitmap(m)
              ELSE m
        m2 == [m1 EXCEPT !.vp.context = FREED_CONTEXT]
    IN  [m2 EXCEPT !.vp = vpmu_clear(m2.vp)]

amd_vpmu_destroy_m(m, is_hvm, released) ==
    LET m1 == IF is_hvm /\ is_msr_bitmap_on(m.vp)
              THEN amd_vpmu_unset_msr_bitmap(m)
              ELSE m
        m2 == [m1 EXCEPT !.vp.context = FREED_CONTEXT]
        m3 == IF vpmu_is_set(m2.vp, VPMU_RUNNING)
              THEN [m2 EXCEPT !.owner = released, !.acq = @ - 1]
              ELSE m2
    IN  [m3 EXCEPT !.vp = vpmu_clear(m3.vp)]

\* The holders release_pmu_ownship(PMU_OWNER_HVM) may leave when the handler
\* calls it, and the present holder when it does not.
WrReleases(vp, is_hvm, msr, guest_content) ==
    IF /\ get_pmu_reg_type(msr) = MSR_TYPE_CTRL
       /\ ~is_pmu_enabled(WrContent(is_hvm, msr, guest_content))
       /\ vpmu_is_set(vp, VPMU_RUNNING)
    THEN release_pmu_ownship(pmu_owner, PMU_OWNER_HVM)
    ELSE {pmu_owner}

DestroyReleases(vp) ==
    IF vpmu_is_set(vp, VPMU_RUNNING)
    THEN release_pmu_ownship(pmu_owner, PMU_OWNER_HVM)
    ELSE {pmu_owner}

\* ------------------------------------------------------------- the calls
NoMsr == 0 - 1
NoWrite == [msr |-> NoMsr, content |-> {}, accepted |-> FALSE]

Call(op, v, msr, ret, val) ==
    [op |-> op, vcpu |-> v, msr |-> msr, ret |-> ret, val |-> val]

\* A handler's machine state written back.
Commit(v, m, c) ==
    /\ vpmu' = [vpmu EXCEPT ![v] = m.vp]
    /\ msr_intercept' = [msr_intercept EXCEPT ![v] = m.ic]
    /\ msr_hw' = [msr_hw EXCEPT ![v] = m.hw]
    /\ pmu_owner' = m.owner
    /\ acq' = [acq EXCEPT ![v] = m.acq]
    /\ call' = c
    /\ UNCHANGED layout

Zeroes(n) == [i \in 1 .. n |-> {}]

\* Faulty variant: the empty layout is not checked for.
svm_vpmu_initialise_NoLayoutCheck(v, alloc_ok) ==
    /\ vpmu[v].context = NULL_CONTEXT
    /\ LET m == Machine(v)
           r == IF vpmu_mode = XENPMU_MODE_OFF THEN m
                ELSE IF ~alloc_ok THEN [m EXCEPT !.ret = 0 - ENOMEM]
                ELSE [m EXCEPT
                        !.vp = vpmu_set(
                            [m.vp EXCEPT
                               !.context = [alloc |-> "LIVE",
                                            counters |-> Zeroes(num_counters),
                                            ctrls |-> Zeroes(num_counters)],
                               !.priv_context = NULL,
                               !.arch_vpmu_ops = TRUE],
                            VPMU_CONTEXT_ALLOCATED)]
       IN  Commit(v, r, Call("initialise", v, NoMsr, r.ret, {}))
    /\ UNCHANGED lastwr

svm_vpmu_initialise(v, alloc_ok) ==
    /\ vpmu[v].context = NULL_CONTEXT
    /\ LET m == Machine(v)
           r == IF vpmu_mode = XENPMU_MODE_OFF THEN m
                ELSE IF counters = NULL_ARRAY THEN [m EXCEPT !.ret = 0 - EINVAL]
                ELSE IF ~alloc_ok THEN [m EXCEPT !.ret = 0 - ENOMEM]
                ELSE [m EXCEPT
                        !.vp = vpmu_set(
                            [m.vp EXCEPT
                               !.context = [alloc |-> "LIVE",
                                            counters |-> Zeroes(num_counters),
                                            ctrls |-> Zeroes(num_counters)],
                               !.priv_context = NULL,
                               !.arch_vpmu_ops = TRUE],
                            VPMU_CONTEXT_ALLOCATED)]
       IN  Commit(v, r, Call("initialise", v, NoMsr, r.ret, {}))
    /\ UNCHANGED lastwr

amd_vpmu_do_wrmsr(v, msr, guest_content) ==
    /\ vpmu_is_set(vpmu[v], VPMU_CONTEXT_ALLOCATED)
    /\ \E released \in WrReleases(vpmu[v], hvm[v], msr, guest_content) :
          LET r == amd_vpmu_do_wrmsr_m(Machine(v), hvm[v], msr,
                                       guest_content, released)
          IN  /\ Commit(v, r, Call("wrmsr", v, msr, r.ret, guest_content))
              /\ lastwr' = IF track
                            THEN [lastwr EXCEPT
                                    ![v] = [msr |-> msr,
                                            content |-> guest_content,
                                            accepted |-> ~r.denied]]
                            ELSE lastwr

amd_vpmu_do_rdmsr(v, msr) ==
    /\ vpmu_is_set(vpmu[v], VPMU_CONTEXT_ALLOCATED)
    /\ LET r == amd_vpmu_do_rdmsr_m(Machine(v))
       IN  Commit(v, r, Call("rdmsr", v, msr, r.ret, rdmsrl(r.hw, msr)))
    /\ UNCHANGED lastwr

amd_vpmu_load(v) ==
    /\ vpmu_is_set(vpmu[v], VPMU_CONTEXT_ALLOCATED)
    /\ LET r == amd_vpmu_load_m(Machine(v))
       IN  Commit(v, r, Call("load", v, NoMsr, 0, {}))
    /\ UNCHANGED lastwr

amd_vpmu_save(v) ==
    /\ vpmu_is_set(vpmu[v], VPMU_CONTEXT_ALLOCATED)
    /\ LET r == amd_vpmu_save_m(Machine(v), hvm[v])
       IN  Commit(v, r, Call("save", v, NoMsr, r.ret, {}))
    /\ UNCHANGED lastwr

amd_vpmu_destroy(v) ==
    /\ vpmu_is_set(vpmu[v], VPMU_CONTEXT_ALLOCATED)
    /\ vpmu[v].arch_vpmu_ops
    /\ \E released \in DestroyReleases(vpmu[v]) :
          LET r == amd_vpmu_destroy_m(Machine(v), hvm[v], released)
          IN  Commit(v, r, Call("destroy", v, NoMsr, 0, {}))
    /\ lastwr' = [lastwr EXCEPT ![v] = NoWrite]

\* The scheduler's front-end requests a forced save (sets CONTEXT_SAVE) or
\* withdraws the request.
vpmu_save_force(v, forced) ==
    /\ vpmu_is_set(vpmu[v], VPMU_CONTEXT_ALLOCATED)
    /\ vpmu_is_set(vpmu[v], VPMU_CONTEXT_SAVE) # forced
    /\ vpmu' = [vpmu EXCEPT ![v] = IF forced
                                   THEN vpmu_set(@, VPMU_CONTEXT_SAVE)
                                   ELSE vpmu_reset(@, VPMU_CONTEXT_SAVE)]
    /\ call' = Call("save_force", v, NoMsr, 0, {})
    /\ UNCHANGED << layout, msr_intercept, msr_hw, pmu_owner, acq, lastwr >>

\* The front-end marks the context as no longer in hardware when the save
\* it has just called returned non-zero (the counters were copied out).
vpmu_save_done(v) ==
    /\ call.op = "save" /\ call.vcpu = v /\ call.ret # 0
    /\ vpmu_is_set(vpmu[v], VPMU_CONTEXT_LOADED)
    /\ vpmu' = [vpmu EXCEPT ![v] = vpmu_reset(@, VPMU_CONTEXT_LOADED)]
    /\ call' = Call("save_done", v, NoMsr, 0, {})
    /\ UNCHANGED << layout, msr_intercept, msr_hw, pmu_owner, acq, lastwr >>

\* The hardware counts: a counter whose control register is enabled
\* advances.  Only the first step from an even value is followed.
HwCount(v, i) ==
    /\ i <= num_counters
    /\ is_pmu_enabled(rdmsrl(msr_hw[v], ctrls[i]))
    /\ 0 \notin rdmsrl(msr_hw[v], counters[i])
    /\ msr_hw' = [msr_hw EXCEPT
                    ![v] = wrmsrl(@, counters[i],
                                  rdmsrl(@, counters[i]) \cup {0})]
    /\ call' = Call("count", v, counters[i], 0, {})
    /\ UNCHANGED << layout, vpmu, msr_intercept, pmu_owner, acq, lastwr >>

\* The competing category (the in-host profiler) takes and returns the token.
xenoprof_acquire ==
    /\ LET a == acquire_pmu_ownership(pmu_owner, PMU_OWNER_XENOPROF)
       IN  /\ pmu_owner' = a.owner
           /\ call' = Call("xenoprof_acquire", 0, NoMsr,
                           IF a.ok THEN 1 ELSE 0, {})
    /\ UNCHANGED << layout, vpmu, msr_intercept, msr_hw, acq, lastwr >>

xenoprof_release ==
    /\ pmu_owner = PMU_OWNER_XENOPROF
    /\ pmu_owner' \in release_pmu_ownship(pmu_owner, PMU_OWNER_XENOPROF)
    /\ call' = Call("xenoprof_release", 0, NoMsr, 0, {})
    /\ UNCHANGED << layout, vpmu, msr_intercept, msr_hw, acq, lastwr >>

\* ----------------------------------------------------------------- inputs
Families == {16, 21, 23}
PageSizes == {PAGE_SIZE}
\* What the guest writes: to a control register 0, the enable bit, or the
\* enable and guest-only bits; to a counter register 0 or 1 << 22.
GuestValues(msr) ==
    IF get_pmu_reg_type(msr) = MSR_TYPE_CTRL
    THEN {{}, {MSR_F10H_EVNTSEL_EN_SHIFT},
          {MSR_F10H_EVNTSEL_EN_SHIFT, MSR_F10H_EVNTSEL_GO_SHIFT}}
    ELSE {{}, {MSR_F10H_EVNTSEL_EN_SHIFT}}

\* The counter registers the guest accesses and the hardware is followed
\* counting on: the first of the bank (the counters do not interact).
GuestCounterIdx == {1}

\* The PMU MSRs a guest on this processor accesses: the first registers of
\* the processor's bank and, on family 15h, their legacy aliases.
GuestMsrs ==
    IF cpu_family = 21
    THEN {AMD_F15H_CTRLS[i] : i \in 1 .. MaxIdx}
         \cup {AMD_F15H_COUNTERS[i] : i \in GuestCounterIdx}
         \cup {AMD_F10H_CTRLS[i] : i \in 1 .. MaxIdx}
         \cup {AMD_F10H_COUNTERS[i] : i \in GuestCounterIdx}
    ELSE {AMD_F10H_CTRLS[i] : i \in 1 .. MaxIdx}
         \cup {AMD_F10H_COUNTERS[i] : i \in GuestCounterIdx}

AllMsrs ==
    {AMD_F15H_COUNTERS[i] : i \in 1 .. F15H_NUM_COUNTERS}
    \cup {AMD_F15H_CTRLS[i] : i \in 1 .. F15H_NUM_COUNTERS}
    \cup {AMD_F10H_COUNTERS[i] : i \in 1 .. F10H_NUM_COUNTERS}
    \cup {AMD_F10H_CTRLS[i] : i \in 1 .. F10H_NUM_COUNTERS}

InitWith(families, modes, pages, kinds, tracked) ==
    /\ cpu_family \in families
    /\ vpmu_mode \in modes
    /\ \E page \in pages :
          LET l == amd_vpmu_init(cpu_family, page)
          IN  /\ num_counters = l.num_counters
              /\ counters = l.counters
              /\ ctrls = l.ctrls
              /\ k7_counters_mirrored = l.k7_counters_mirrored
    /\ hvm \in kinds
    /\ vpmu = [v \in VCPUS |->
                 [flags |-> {}, context |-> NULL_CONTEXT, priv_context |-> NULL,
                  arch_vpmu_ops |-> FALSE]]
    /\ msr_intercept = [v \in VCPUS |-> [a \in AllMsrs |-> MSR_INTERCEPT_RW]]
    /\ msr_hw = [v \in VCPUS |-> [a \in HwRegs(cpu_family) |-> {}]]
    /\ pmu_owner = PMU_OWNER_NONE
    /\ acq = [v \in VCPUS |-> 0]
    /\ call = Call("boot", 0, NoMsr, 0, {})
    /\ track = tracked
    /\ lastwr = [v \in VCPUS |-> NoWrite]

\* One guest vCPU (vCPU 1, of either kind) and the competing category.
Init ==
    InitWith(Families, {XENPMU_MODE_OFF, XENPMU_MODE_SELF}, PageSizes,
             {k \in [VCPUS -> BOOLEAN] : \A v \in VCPUS : v # 1 => k[v]},
             FALSE)

Next ==
    \/ \E alloc_ok \in BOOLEAN : svm_vpmu_initialise(1, alloc_ok)
    \/ \E msr \in GuestMsrs : \E c \in GuestValues(msr) :
          amd_vpmu_do_wrmsr(1, msr, c)
    \/ \E msr \in GuestMsrs : amd_vpmu_do_rdmsr(1, msr)
    \/ amd_vpmu_load(1)
    \/ amd_vpmu_save(1)
    \/ amd_vpmu_destroy(1)
    \/ \E forced \in BOOLEAN : vpmu_save_force(1, forced)
    \/ vpmu_save_done(1)
    \/ \E i \in GuestCounterIdx : HwCount(1, i)
    \/ xenoprof_acquire
    \/ xenoprof_release

Spec == Init /\ [][Next]_vars

\* Two or more HVM vCPUs, each on its own physical CPU, and the competing
\* category; every vCPU drives the first control register.
InitSMP ==
    InitWith({16}, {XENPMU_MODE_SELF}, {PAGE_SIZE},
             {[v \in VCPUS |-> TRUE]}, FALSE)

NextSMP ==
    \/ \E v \in VCPUS : svm_vpmu_initialise(v, TRUE)
    \/ \E v \in VCPUS :
          \E c \in {{}, {MSR_F10H_EVNTSEL_EN_SHIFT}} :
             amd_vpmu_do_wrmsr(v, ctrls[1], c)
    \/ \E v \in VCPUS : amd_vpmu_load(v)
    \/ \E v \in VCPUS : amd_vpmu_save(v)
    \/ \E v \in VCPUS : amd_vpmu_destroy(v)
    \/ xenoprof_acquire
    \/ xenoprof_release

SpecSMP == InitSMP /\ [][NextSMP]_vars

\* One HVM vCPU with the last handle_write recorded.
InitRT ==
    InitWith({16, 21}, {XENPMU_MODE_SELF}, {PAGE_SIZE},
             {[v \in VCPUS |-> TRUE]}, TRUE)

\* The control registers among the MSRs the guest accesses.
GuestCtrlMsrs == {msr \in GuestMsrs : get_pmu_reg_type(msr) = MSR_TYPE_CTRL}

\* The calls between a control-register write and its read back; the
\* counter registers, which no control-register path reads, are left at 0.
NextRT ==
    \/ svm_vpmu_initialise(1, TRUE)
    \/ \E msr \in GuestCtrlMsrs : \E c \in GuestValues(msr) :
          amd_vpmu_do_wrmsr(1, msr, c)
    \/ \E msr \in GuestCtrlMsrs : amd_vpmu_do_rdmsr(1, msr)
    \/ amd_vpmu_load(1)
    \/ amd_vpmu_save(1)
    \/ amd_vpmu_destroy(1)
    \/ \E forced \in BOOLEAN : vpmu_save_force(1, forced)
    \/ vpmu_save_done(1)
    \/ xenoprof_acquire
    \/ xenoprof_release

SpecRT == InitRT /\ [][NextRT]_vars

\* Boot followed from power-on: the statics hold their initial values until
\* amd_vpmu_init() runs, once, before any vCPU is initialised.  The shared
\* page is the build's page or one the four-register bank just fits.
BootFamilies == {15, 16, 17, 18, 19, 20, 21, 22, 23}
BootPageSizes ==
    {PAGE_SIZE, SIZEOF_XEN_PMU_DATA + 2 * SIZEOF_UINT64 * F10H_NUM_COUNTERS}

InitBoot ==
    /\ cpu_family \in BootFamilies
    /\ vpmu_mode \in {XENPMU_MODE_OFF, XENPMU_MODE_SELF}
    /\ num_counters = LayoutStatics.num_counters
    /\ counters = LayoutStatics.counters
    /\ ctrls = LayoutStatics.ctrls
    /\ k7_counters_mirrored = LayoutStatics.k7_counters_mirrored
    /\ hvm \in {k \in [VCPUS -> BOOLEAN] : \A v \in VCPUS : v # 1 => k[v]}
    /\ vpmu = [v \in VCPUS |->
                 [flags |-> {}, context |-> NULL_CONTEXT, priv_context |-> NULL,
                  arch_vpmu_ops |-> FALSE]]
    /\ msr_intercept = [v \in VCPUS |-> [a \in AllMsrs |-> MSR_INTERCEPT_RW]]
    /\ msr_hw = [v \in VCPUS |-> [a \in HwRegs(cpu_family) |-> {}]]
    /\ pmu_owner = PMU_OWNER_NONE
    /\ acq = [v \in VCPUS |-> 0]
    /\ call = Call("poweron", 0, NoMsr, 0, {})
    /\ track = FALSE
    /\ lastwr = [v \in VCPUS |-> NoWrite]

\* The boot-time call of amd_vpmu_init().
amd_vpmu_init_boot(page) ==
    /\ call.op = "poweron"
    /\ LET l == amd_vpmu_init(cpu_family, page)
       IN  /\ num_counters' = l.num_counters
           /\ counters' = l.counters
           /\ ctrls' = l.ctrls
           /\ k7_counters_mirrored' = l.k7_counters_mirrored
           /\ call' = Call("boot", 0, NoMsr, l.ret, {})
    /\ UNCHANGED << cpu_family, vpmu_mode, hvm, track, vpmu, msr_intercept,
                    msr_hw, pmu_owner, acq, lastwr >>

NextBoot ==
    \/ \E page \in BootPageSizes : amd_vpmu_init_boot(page)
    \/ \E v \in VCPUS : \E alloc_ok \in BOOLEAN :
          call.op # "poweron" /\ svm_vpmu_initialise(v, alloc_ok)
    \/ \E v \in VCPUS :
          call.op # "poweron" /\ amd_vpmu_destroy(v)

SpecBoot == InitBoot /\ [][NextBoot]_vars

\* Writes to every register of the bank and, with mirroring, to every legacy
\* alias, each of the value 1 << 22, while fewer than MaxDirty shadow
\* entries are non-zero.
MaxDirty == 3

BankAndAliasMsrs ==
    {counters[i] : i \in 1 .. num_counters}
    \cup {ctrls[i] : i \in 1 .. num_counters}
    \cup (IF k7_counters_mirrored
          THEN {AMD_F10H_COUNTERS[i] : i \in 1 .. F10H_NUM_COUNTERS}
               \cup {AMD_F10H_CTRLS[i] : i \in 1 .. F10H_NUM_COUNTERS}
          ELSE {})

DirtyEntries(v) ==
    Cardinality({i \in 1 .. num_counters : ctrl_regs(vpmu[v])[i] # {}})
    + Cardinality({i \in 1 .. num_counters : counter_regs(vpmu[v])[i] # {}})

InitIdx ==
    InitWith({16, 21}, {XENPMU_MODE_SELF}, {PAGE_SIZE},
             {k \in [VCPUS -> BOOLEAN] : \A v \in VCPUS : v # 1 => k[v]},
             FALSE)

NextIdx ==
    \/ svm_vpmu_initialise(1, TRUE)
    \/ \E msr \in BankAndAliasMsrs :
          /\ vpmu_is_set(vpmu[1], VPMU_CONTEXT_ALLOCATED)
          /\ DirtyEntries(1) < MaxDirty
          /\ amd_vpmu_do_wrmsr(1, msr, {MSR_F10H_EVNTSEL_EN_SHIFT})
    \/ xenoprof_acquire
    \/ xenoprof_release

SpecIdx == InitIdx /\ [][NextIdx]_vars

\* amd_vpmu_dump(), reached through the operation set only.  It computes
\* counter_regs and ctrl_regs first, which reads the offsets ctxt->counters
\* and ctxt->ctrls out of the context storage, and tests CONTEXT_ALLOCATED
\* afterwards.  Reading storage that was freed is undefined: the read gives
\* some value and the dump goes on, or it faults and the host stops.
DumpOutcomes(vp) ==
    IF vp.context.alloc = "LIVE" THEN {FALSE} ELSE {FALSE, TRUE}

amd_vpmu_dump(v) ==
    /\ vpmu[v].arch_vpmu_ops
    /\ \E fault \in DumpOutcomes(vpmu[v]) :
          call' = [op |-> "dump", vcpu |-> v, msr |-> NoMsr, ret |-> 0,
                   val |-> {},
                   ctxt_read |-> vpmu[v].context.alloc,
                   regs_printed |->
                      (~fault /\ vpmu_is_set(vpmu[v], VPMU_CONTEXT_ALLOCATED)),
                   fault |-> fault]
    /\ UNCHANGED << layout, vpmu, msr_intercept, msr_hw, pmu_owner, acq,
                    lastwr >>

\* The host has stopped in a faulting dump.
Crashed == call.op = "dump" /\ call.fault

InitDump ==
    InitWith({16, 21}, {XENPMU_MODE_SELF}, {PAGE_SIZE},
             {k \in [VCPUS -> BOOLEAN] : \A v \in VCPUS : v # 1 => k[v]},
             FALSE)

NextDump ==
    \/ ~Crashed /\ svm_vpmu_initialise(1, TRUE)
    \/ \E msr \in GuestCtrlMsrs : \E c \in GuestValues(msr) :
          ~Crashed /\ amd_vpmu_do_wrmsr(1, msr, c)
    \/ ~Crashed /\ amd_vpmu_load(1)
    \/ ~Crashed /\ amd_vpmu_save(1)
    \/ ~Crashed /\ amd_vpmu_destroy(1)
    \/ ~Crashed /\ amd_vpmu_dump(1)

SpecDump == InitDump /\ [][NextDump]_vars

\* ================================================================ claims
Live(v) == vpmu[v].context.alloc = "LIVE"
Running(v) == vpmu_is_set(vpmu[v], VPMU_RUNNING)
Bank == 1 .. num_counters
HwCtrl(v, i) == rdmsrl(msr_hw[v], ctrls[i])
HwCounter(v, i) == rdmsrl(msr_hw[v], counters[i])

\* The step is the call op on vCPU v (call is rewritten by every step).
IsCall(op, v) == call'.op = op /\ call'.vcpu = v

\* The step is a handle_write of vCPU v to a control register with the
\* enable bit set, entered with RUNNING unset.
IsFirstEnable(v) ==
    /\ IsCall("wrmsr", v)
    /\ get_pmu_reg_type(call'.msr) = MSR_TYPE_CTRL
    /\ is_pmu_enabled(call'.val)
    /\ ~Running(v)

\* C1: RUNNING becomes set only in a handle_write that acquired the token,
\* becomes unset only in a handle_write or destroy that releases it once,
\* and in every state the vCPU's acquisitions minus releases are 1 when
\* RUNNING is set and 0 when it is not.
C1_RunningHoldsToken ==
    /\ [](\A v \in VCPUS : acq[v] = IF Running(v) THEN 1 ELSE 0)
    /\ [][\A v \in VCPUS :
            /\ (~Running(v) /\ Running(v)') =>
                  /\ IsCall("wrmsr", v)
                  /\ acquire_pmu_ownership(pmu_owner, PMU_OWNER_HVM).ok
                  /\ acq'[v] = acq[v] + 1
            /\ (Running(v) /\ ~Running(v)') =>
                  /\ IsCall("wrmsr", v) \/ IsCall("destroy", v)
                  /\ acq'[v] = acq[v] - 1]_vars

\* A disabling write has cleared RUNNING and returned the token while
\* another control register is still enabled in the shadow.
C1_Witness ==
    /\ call.op = "wrmsr" /\ call.vcpu = 1
    /\ get_pmu_reg_type(call.msr) = MSR_TYPE_CTRL
    /\ ~is_pmu_enabled(call.val)
    /\ Live(1) /\ ~Running(1) /\ acq[1] = 0
    /\ pmu_owner = PMU_OWNER_NONE
    /\ \E i \in Bank : is_pmu_enabled(ctrl_regs(vpmu[1])[i])

\* C3: a handle_write that enables a control register with RUNNING unset
\* and is denied the token changes nothing and returns handled (1).
C3_DeniedWriteNoEffect ==
    [][\A v \in VCPUS :
          (/\ IsFirstEnable(v)
           /\ ~acquire_pmu_ownership(pmu_owner, PMU_OWNER_HVM).ok)
          => /\ vpmu' = vpmu
             /\ msr_hw' = msr_hw
             /\ msr_intercept' = msr_intercept
             /\ pmu_owner' = pmu_owner
             /\ acq' = acq
             /\ call'.ret = 1]_vars

\* A denied enabling write has returned: the competing category holds the
\* token, RUNNING is unset and the context was never loaded.
C3_Witness ==
    /\ call.op = "wrmsr" /\ call.vcpu = 1 /\ call.ret = 1
    /\ get_pmu_reg_type(call.msr) = MSR_TYPE_CTRL
    /\ is_pmu_enabled(call.val)
    /\ Live(1) /\ ~Running(1)
    /\ pmu_owner = PMU_OWNER_XENOPROF
    /\ ~vpmu_is_set(vpmu[1], VPMU_CONTEXT_LOADED)

\* C4: on an HVM vCPU, a handle_write that enables a control register with
\* RUNNING unset and acquires the token returns with RUNNING set and the
\* fast-path intercept installed: the bitmap flag on, every counter of the
\* bank pass-through, every control register trapping writes only.
C4_FirstEnableInstallsFastPath ==
    [][\A v \in VCPUS :
          (/\ IsFirstEnable(v)
           /\ hvm[v]
           /\ acquire_pmu_ownership(pmu_owner, PMU_OWNER_HVM).ok)
          => /\ Running(v)'
             /\ is_msr_bitmap_on(vpmu'[v])
             /\ \A i \in Bank :
                   /\ msr_intercept'[v][counters[i]] = MSR_INTERCEPT_NONE
                   /\ msr_intercept'[v][ctrls[i]] = MSR_INTERCEPT_WRITE]_vars

GoOrZero(msr) == msr = {} \/ is_guest_mode(msr)

\* C5: on an HVM vCPU every control shadow entry and every hardware
\* control register of the bank is 0 or has the guest-only bit (40) set.
C5_GuestOnlyForced ==
    \A v \in VCPUS :
       hvm[v] =>
          \A i \in Bank :
             /\ GoOrZero(HwCtrl(v, i))
             /\ Live(v) => GoOrZero(ctrl_regs(vpmu[v])[i])

\* The guest wrote an enable without the guest-only bit; shadow and
\* hardware hold it with the bit.
C5_Witness ==
    /\ hvm[1] /\ Live(1)
    /\ call.op = "wrmsr" /\ call.vcpu = 1
    /\ call.val = {MSR_F10H_EVNTSEL_EN_SHIFT}
    /\ \E i \in Bank :
          /\ call.msr = ctrls[i]
          /\ HwCtrl(1, i) = {MSR_F10H_EVNTSEL_EN_SHIFT,
                             MSR_F10H_EVNTSEL_GO_SHIFT}
          /\ ctrl_regs(vpmu[1])[i] = HwCtrl(1, i)

\* C7: while some control shadow entry has its enable bit set, RUNNING is
\* set and the token is held for the vCPU.
C7_RunningUntilLastDisabled ==
    \A v \in VCPUS :
       (Live(v) /\ \E i \in Bank : is_pmu_enabled(ctrl_regs(vpmu[v])[i]))
       => (Running(v) /\ pmu_owner = PMU_OWNER_HVM /\ acq[v] = 1)

SameButCall ==
    /\ vpmu' = vpmu
    /\ msr_hw' = msr_hw
    /\ msr_intercept' = msr_intercept
    /\ pmu_owner' = pmu_owner
    /\ acq' = acq

\* C8: load clears FROZEN and leaves CONTEXT_LOADED set; entered with
\* CONTEXT_LOADED unset it writes every counter and control register of the
\* bank from the shadow, entered with it set it rewrites the control
\* registers only and leaves the hardware counters alone; a load that
\* directly follows a load changes nothing.
C8_Load ==
    [][\A v \in VCPUS :
          IsCall("load", v) =>
             /\ vpmu'[v].flags =
                   (vpmu[v].flags \ {VPMU_FROZEN}) \cup {VPMU_CONTEXT_LOADED}
             /\ vpmu'[v].context = vpmu[v].context
             /\ \A i \in Bank :
                   /\ rdmsrl(msr_hw'[v], ctrls[i]) = ctrl_regs(vpmu[v])[i]
                   /\ rdmsrl(msr_hw'[v], counters[i]) =
                         IF vpmu_is_set(vpmu[v], VPMU_CONTEXT_LOADED)
                         THEN HwCounter(v, i)
                         ELSE counter_regs(vpmu[v])[i]
             /\ (call.op = "load" /\ call.vcpu = v) => SameButCall]_vars

\* A load took the control-only path: the counter the hardware advanced
\* still differs from its shadow, and its control register is enabled again.
C8_Witness ==
    /\ call.op = "load" /\ call.vcpu = 1
    /\ Live(1)
    /\ vpmu_is_set(vpmu[1], VPMU_CONTEXT_LOADED)
    /\ ~vpmu_is_set(vpmu[1], VPMU_FROZEN)
    /\ \E i \in Bank :
          /\ HwCounter(1, i) # counter_regs(vpmu[1])[i]
          /\ is_pmu_enabled(HwCtrl(1, i))

\* C9: save entered with CONTEXT_SAVE unset returns 0 (Stopped), sets
\* FROZEN, zeroes every hardware control register of the bank and leaves
\* the shadow, the hardware counters, CONTEXT_LOADED and the intercepts.
C9_SaveFreezes ==
    [][\A v \in VCPUS :
          (IsCall("save", v) /\ ~vpmu_is_set(vpmu[v], VPMU_CONTEXT_SAVE)) =>
             /\ call'.ret = 0
             /\ vpmu'[v] = vpmu_set(vpmu[v], VPMU_FROZEN)
             /\ \A i \in Bank :
                   /\ rdmsrl(msr_hw'[v], ctrls[i]) = {}
                   /\ rdmsrl(msr_hw'[v], counters[i]) = HwCounter(v, i)
             /\ msr_intercept' = msr_intercept
             /\ pmu_owner' = pmu_owner
             /\ acq' = acq]_vars

\* A freeze has stopped a running context: the shadow still has an enabled
\* control register and an advanced counter's value is still in hardware.
C9_Witness ==
    /\ call.op = "save" /\ call.vcpu = 1 /\ call.ret = 0
    /\ Live(1)
    /\ vpmu_is_set(vpmu[1], VPMU_FROZEN)
    /\ ~vpmu_is_set(vpmu[1], VPMU_CONTEXT_SAVE)
    /\ \E i \in Bank :
          /\ is_pmu_enabled(ctrl_regs(vpmu[1])[i])
          /\ HwCtrl(1, i) = {}
          /\ HwCounter(1, i) # counter_regs(vpmu[1])[i]

\* The step is a save entered with CONTEXT_SAVE set and CONTEXT_LOADED unset.
IsUnloadedForcedSave(v) ==
    /\ IsCall("save", v)
    /\ vpmu_is_set(vpmu[v], VPMU_CONTEXT_SAVE)
    /\ ~vpmu_is_set(vpmu[v], VPMU_CONTEXT_LOADED)

\* C10 as stated: a save entered with CONTEXT_SAVE set and CONTEXT_LOADED
\* unset changes nothing and returns 1 (Saved), the value of the forced path.
C10_UnloadedForcedSaveReturnsSaved ==
    [][\A v \in VCPUS :
          IsUnloadedForcedSave(v) => (SameButCall /\ call'.ret = 1)]_vars

\* C10 as amended: a save entered with CONTEXT_SAVE set and CONTEXT_LOADED
\* unset changes nothing and returns 0, the value of the freeze path.
C10_UnloadedForcedSaveReturnsZero ==
    [][\A v \in VCPUS :
          IsUnloadedForcedSave(v) => (SameButCall /\ call'.ret = 0)]_vars

\* A forced save of a context that is not in hardware has returned.
C10_Witness ==
    /\ call.op = "save" /\ call.vcpu = 1 /\ call.ret = 0
    /\ Live(1)
    /\ vpmu_is_set(vpmu[1], VPMU_CONTEXT_SAVE)
    /\ ~vpmu_is_set(vpmu[1], VPMU_CONTEXT_LOADED)
    /\ ~vpmu_is_set(vpmu[1], VPMU_FROZEN)

\* C2: while some vCPU has RUNNING set the token is held by the HVM
\* category and the competing category's acquire fails.
C2_TokenHeldWhileRunning ==
    (\E v \in VCPUS : Running(v)) =>
       /\ pmu_owner = PMU_OWNER_HVM
       /\ ~acquire_pmu_ownership(pmu_owner, PMU_OWNER_XENOPROF).ok

\* The read is of the control register the vCPU's last handle_write wrote
\* with the enable bit set.
ReadsBackLastEnable(v) ==
    /\ call.op = "rdmsr" /\ call.vcpu = v
    /\ hvm[v]
    /\ lastwr[v].msr = call.msr
    /\ get_pmu_reg_type(call.msr) = MSR_TYPE_CTRL
    /\ is_pmu_enabled(lastwr[v].content)

\* C6 as stated: a handle_read of the control register last written with an
\* enabling value v, with only loads and saves in between, returns v with
\* the guest-only bit set.
C6_RoundTrip ==
    \A v \in VCPUS :
       ReadsBackLastEnable(v)
       => call.val = set_guest_mode(lastwr[v].content)

\* C6 as amended: the same, for a write that was not rejected for ownership.
C6_RoundTripAccepted ==
    \A v \in VCPUS :
       (ReadsBackLastEnable(v) /\ lastwr[v].accepted)
       => call.val = set_guest_mode(lastwr[v].content)

\* An accepted enable without the guest-only bit was read back with it.
C6_Witness ==
    /\ ReadsBackLastEnable(1)
    /\ lastwr[1].accepted
    /\ lastwr[1].content = {MSR_F10H_EVNTSEL_EN_SHIFT}
    /\ call.val = {MSR_F10H_EVNTSEL_EN_SHIFT, MSR_F10H_EVNTSEL_GO_SHIFT}

\* C11: destroy leaves every flag clear, the bitmap flag off and every bank
\* register fully trapped, the context storage freed and no acquisition of
\* the vCPU outstanding; it releases once if RUNNING was set on entry and
\* leaves the token alone otherwise.
C11_Destroy ==
    [][\A v \in VCPUS :
          IsCall("destroy", v) =>
             /\ vpmu'[v].flags = {}
             /\ ~is_msr_bitmap_on(vpmu'[v])
             /\ \A i \in Bank :
                   /\ msr_intercept'[v][counters[i]] = MSR_INTERCEPT_RW
                   /\ msr_intercept'[v][ctrls[i]] = MSR_INTERCEPT_RW
             /\ vpmu'[v].context = FREED_CONTEXT
             /\ acq'[v] = 0
             /\ acq'[v] = acq[v] - (IF Running(v) THEN 1 ELSE 0)
             /\ ~Running(v) => pmu_owner' = pmu_owner]_vars

\* A vCPU was destroyed while its counter was still enabled in hardware:
\* the token is free again and nothing is outstanding.
C11_Witness ==
    /\ call.op = "destroy" /\ call.vcpu = 1
    /\ vpmu[1].flags = {}
    /\ vpmu[1].context = FREED_CONTEXT
    /\ acq[1] = 0
    /\ pmu_owner = PMU_OWNER_NONE
    /\ \E i \in Bank :
          is_pmu_enabled(HwCtrl(1, i)) /\ 0 \in HwCounter(1, i)

\* The step is an initialise of vCPU v with the layout left empty at boot.
IsInitialiseWithoutLayout(v) ==
    IsCall("initialise", v) /\ counters = NULL_ARRAY

\* The initialise allocated nothing: no storage, no flag, no operation set.
InitialiseLeftAlone(v) ==
    /\ vpmu'[v] = vpmu[v]
    /\ vpmu'[v].context = NULL_CONTEXT
    /\ ~vpmu_is_set(vpmu'[v], VPMU_CONTEXT_ALLOCATED)
    /\ ~vpmu'[v].arch_vpmu_ops

LayoutIsF15h ==
    /\ num_counters' = F15H_NUM_COUNTERS
    /\ counters' = AMD_F15H_COUNTERS /\ ctrls' = AMD_F15H_CTRLS
    /\ k7_counters_mirrored'

LayoutIsF10h ==
    /\ num_counters' = F10H_NUM_COUNTERS
    /\ counters' = AMD_F10H_COUNTERS /\ ctrls' = AMD_F10H_CTRLS
    /\ ~k7_counters_mirrored'

LayoutIsEmpty ==
    /\ num_counters' = 0
    /\ counters' = NULL_ARRAY /\ ctrls' = NULL_ARRAY

ListsHaveBankSize ==
    Len(counters') = num_counters' /\ Len(ctrls') = num_counters'

CtrlAddresses(i) ==
    {ctrls[i]} \cup (IF k7_counters_mirrored /\ i <= F10H_NUM_COUNTERS
                     THEN {AMD_F10H_CTRLS[i]} ELSE {})

CounterAddresses(i) ==
    {counters[i]} \cup (IF k7_counters_mirrored /\ i <= F10H_NUM_COUNTERS
                        THEN {AMD_F10H_COUNTERS[i]} ELSE {})

\* The step is a handle_write of vCPU v that is not rejected for ownership.
IsAcceptedWrite(v) ==
    /\ IsCall("wrmsr", v)
    /\ ~(/\ IsFirstEnable(v)
         /\ ~acquire_pmu_ownership(pmu_owner, PMU_OWNER_HVM).ok)

\* C13: an accepted write to control (counter) register i of the bank, or
\* with mirroring to its legacy alias, sets control (counter) shadow entry i
\* to the written value and changes no other shadow entry.
C13_WriteUpdatesIndex ==
    [][\A v \in VCPUS :
          IsAcceptedWrite(v) =>
             \A i \in Bank :
                /\ ctrl_regs(vpmu'[v])[i] =
                      IF call'.msr \in CtrlAddresses(i)
                      THEN WrContent(hvm[v], call'.msr, call'.val)
                      ELSE ctrl_regs(vpmu[v])[i]
                /\ counter_regs(vpmu'[v])[i] =
                      IF call'.msr \in CounterAddresses(i)
                      THEN call'.val
                      ELSE counter_regs(vpmu[v])[i]]_vars

\* On family 15h the legacy alias of control register 2 was written: shadow
\* entry 2 holds the value, and another entry written before keeps its own.
C13_Witness ==
    /\ k7_counters_mirrored
    /\ call.op = "wrmsr" /\ call.vcpu = 1 /\ call.msr = MSR_K7_EVNTSEL2
    /\ is_pmu_enabled(call.val)
    /\ is_pmu_enabled(ctrl_regs(vpmu[1])[3])
    /\ \A i \in Bank : i # 3 => ctrl_regs(vpmu[1])[i] = {}
    /\ counter_regs(vpmu[1])[6] # {}

\* C15: the dump changes nothing, and with CONTEXT_ALLOCATED unset it prints
\* the flags only and does not read the context storage.
C15_DumpReadsNoFreedContext ==
    [][\A v \in VCPUS :
          IsCall("dump", v) =>
             /\ SameButCall
             /\ ~call'.fault
             /\ ~vpmu_is_set(vpmu[v], VPMU_CONTEXT_ALLOCATED)
                   => (~call'.regs_printed /\ call'.ctxt_read = "NULL")]_vars

\* The step is a save entered with CONTEXT_SAVE set and CONTEXT_LOADED set.
IsLoadedForcedSave(v) ==
    /\ IsCall("save", v)
    /\ vpmu_is_set(vpmu[v], VPMU_CONTEXT_SAVE)
    /\ vpmu_is_set(vpmu[v], VPMU_CONTEXT_LOADED)

\* C16: a save entered with CONTEXT_SAVE and CONTEXT_LOADED set copies every
\* hardware counter of the bank into the counter shadow, leaves the control
\* shadow and the hardware registers, reverts the intercepts to full trap
\* exactly when RUNNING is unset and the fast path was active, leaves
\* RUNNING and the token, and returns 1 (Saved).
C16_LoadedForcedSave ==
    [][\A v \in VCPUS :
          IsLoadedForcedSave(v) =>
             /\ call'.ret = 1
             /\ \A i \in Bank : counter_regs(vpmu'[v])[i] = HwCounter(v, i)
             /\ ctrl_regs(vpmu'[v]) = ctrl_regs(vpmu[v])
             /\ msr_hw' = msr_hw
             /\ vpmu'[v].flags = vpmu[v].flags
             /\ pmu_owner' = pmu_owner
             /\ acq' = acq
             /\ IF ~Running(v) /\ is_msr_bitmap_on(vpmu[v])
                THEN /\ ~is_msr_bitmap_on(vpmu'[v])
                     /\ \A i \in Bank :
                           /\ msr_intercept'[v][counters[i]] = MSR_INTERCEPT_RW
                           /\ msr_intercept'[v][ctrls[i]] = MSR_INTERCEPT_RW
                ELSE /\ msr_intercept' = msr_intercept
                     /\ vpmu'[v].priv_context = vpmu[v].priv_context]_vars

\* A forced save has copied out a counter that the hardware had advanced
\* while the context was running.
C16_Witness ==
    /\ call.op = "save" /\ call.vcpu = 1 /\ call.ret = 1
    /\ Live(1)
    /\ vpmu_is_set(vpmu[1], VPMU_CONTEXT_SAVE)
    /\ vpmu_is_set(vpmu[1], VPMU_CONTEXT_LOADED)
    /\ Running(1)
    /\ \E i \in Bank :
          /\ 0 \in HwCounter(1, i)
          /\ counter_regs(vpmu[1])[i] = HwCounter(1, i)
          /\ is_pmu_enabled(ctrl_regs(vpmu[1])[i])

\* On entry of the step the context of vCPU v is not in hardware.
NeedsLoad(v) ==
    \/ ~vpmu_is_set(vpmu[v], VPMU_CONTEXT_LOADED)
    \/ vpmu_is_set(vpmu[v], VPMU_FROZEN)

\* After the step every register of the bank other than the one the step
\* addressed holds the value the shadow had on entry.
ShadowWasPushed(v) ==
    \A i \in Bank :
       /\ HwAddr(ctrls[i]) # HwAddr(call'.msr)
             => rdmsrl(msr_hw'[v], ctrls[i]) = ctrl_regs(vpmu[v])[i]
       /\ HwAddr(counters[i]) # HwAddr(call'.msr)
             => rdmsrl(msr_hw'[v], counters[i]) = counter_regs(vpmu[v])[i]

\* C17: after every handle_read and every handle_write not rejected for
\* ownership CONTEXT_LOADED is set and FROZEN is clear, and a context that
\* was not in hardware on entry was pushed to it from the shadow before the
\* access; handle_read returns the hardware value of the addressed register
\* and 1 (handled), and changes neither shadow array, RUNNING, the
\* intercepts nor the token.
C17_AccessLoadsContext ==
    [][\A v \in VCPUS :
          /\ (IsCall("rdmsr", v) \/ IsAcceptedWrite(v)) =>
                /\ vpmu_is_set(vpmu'[v], VPMU_CONTEXT_LOADED)
                /\ ~vpmu_is_set(vpmu'[v], VPMU_FROZEN)
                /\ NeedsLoad(v) => ShadowWasPushed(v)
          /\ IsCall("rdmsr", v) =>
                /\ call'.ret = 1
                /\ call'.val = rdmsrl(msr_hw'[v], call'.msr)
                /\ NeedsLoad(v) =>
                      \A i \in Bank :
                         /\ HwAddr(ctrls[i]) = HwAddr(call'.msr)
                               => call'.val = ctrl_regs(vpmu[v])[i]
                         /\ HwAddr(counters[i]) = HwAddr(call'.msr)
                               => call'.val = counter_regs(vpmu[v])[i]
                /\ ~NeedsLoad(v) => msr_hw' = msr_hw
                /\ vpmu'[v].context = vpmu[v].context
                /\ vpmu_is_set(vpmu'[v], VPMU_RUNNING) = Running(v)
                /\ msr_intercept' = msr_intercept
                /\ vpmu'[v].priv_context = vpmu[v].priv_context
                /\ pmu_owner' = pmu_owner
                /\ acq' = acq]_vars

\* A read of a running context has returned an enabled control value and
\* left the context in hardware, the control registers as in the shadow.
C17_Witness ==
    /\ call.op = "rdmsr" /\ call.vcpu = 1 /\ call.ret = 1
    /\ Live(1)
    /\ Running(1)
    /\ vpmu_is_set(vpmu[1], VPMU_CONTEXT_LOADED)
    /\ ~vpmu_is_set(vpmu[1], VPMU_FROZEN)
    /\ get_pmu_reg_type(call.msr) = MSR_TYPE_CTRL
    /\ is_pmu_enabled(call.val)
    /\ \A i \in Bank : HwCtrl(1, i) = ctrl_regs(vpmu[1])[i]
    /\ \E i \in Bank : 0 \in HwCounter(1, i)

\* C18: RUNNING set implies that at least one control shadow entry of the
\* bank has its enable bit set.
C18_RunningHasEnabledShadow ==
    \A v \in VCPUS :
       Running(v) => \E i \in Bank : is_pmu_enabled(ctrl_regs(vpmu[v])[i])

\* A running context stopped by a freeze: the only enable bit in the
\* shadow is the second control register's.
C18_Witness ==
    /\ Live(1)
    /\ Running(1)
    /\ ~is_pmu_enabled(ctrl_regs(vpmu[1])[1])
    /\ is_pmu_enabled(ctrl_regs(vpmu[1])[2])
    /\ vpmu_is_set(vpmu[1], VPMU_FROZEN)

\* The step is a handle_write of vCPU v to a control register.
IsCtrlWrite(v) ==
    IsCall("wrmsr", v) /\ get_pmu_reg_type(call'.msr) = MSR_TYPE_CTRL

\* The step changes RUNNING of vCPU v or what it holds of the token.
ChangesRunningOrToken(v) ==
    \/ vpmu_is_set(vpmu'[v], VPMU_RUNNING) # Running(v)
    \/ acq'[v] # acq[v]

\* C19: load and save (freeze and forced) change neither RUNNING nor the
\* token; after a freeze of a running context RUNNING is still set and the
\* token still held although every hardware control register is zero; only
\* a control-register write or destroy changes RUNNING or the vCPU's hold
\* on the token.
C19_LoadSaveKeepRunning ==
    [][\A v \in VCPUS :
          /\ (IsCall("load", v) \/ IsCall("save", v)) =>
                /\ vpmu_is_set(vpmu'[v], VPMU_RUNNING) = Running(v)
                /\ pmu_owner' = pmu_owner
                /\ acq' = acq
          /\ ( /\ IsCall("save", v)
               /\ ~vpmu_is_set(vpmu[v], VPMU_CONTEXT_SAVE)
               /\ Running(v) ) =>
                /\ vpmu_is_set(vpmu'[v], VPMU_RUNNING)
                /\ acq'[v] = 1
                /\ \A i \in Bank : rdmsrl(msr_hw'[v], ctrls[i]) = {}
          /\ ChangesRunningOrToken(v) =>
                (IsCtrlWrite(v) \/ IsCall("destroy", v))]_vars

\* A freeze has zeroed the hardware control registers of a running context
\* that still has RUNNING set and still holds the token.
C19_Witness ==
    /\ call.op = "save" /\ call.vcpu = 1 /\ call.ret = 0
    /\ Live(1)
    /\ Running(1)
    /\ vpmu_is_set(vpmu[1], VPMU_FROZEN)
    /\ pmu_owner = PMU_OWNER_HVM
    /\ acq[1] = 1
    /\ \A i \in Bank : HwCtrl(1, i) = {}

\* C20: while CONTEXT_LOADED is set and FROZEN is clear every hardware
\* control register of the bank equals its control shadow entry, and while
\* FROZEN is set every hardware control register of the bank is 0.
C20_ShadowHardwareCoherence ==
    \A v \in VCPUS :
       /\ ( /\ vpmu_is_set(vpmu[v], VPMU_CONTEXT_LOADED)
            /\ ~vpmu_is_set(vpmu[v], VPMU_FROZEN) ) =>
             \A i \in Bank : HwCtrl(v, i) = ctrl_regs(vpmu[v])[i]
       /\ vpmu_is_set(vpmu[v], VPMU_FROZEN) =>
             \A i \in Bank : HwCtrl(v, i) = {}

\* A load has put a running context back into hardware: the control
\* registers, one of them enabled and one not, are as in the shadow.
C20_Witness ==
    /\ call.op = "load" /\ call.vcpu = 1
    /\ Live(1)
    /\ Running(1)
    /\ vpmu_is_set(vpmu[1], VPMU_CONTEXT_LOADED)
    /\ ~vpmu_is_set(vpmu[1], VPMU_FROZEN)
    /\ \E i, j \in Bank :
          /\ is_pmu_enabled(HwCtrl(1, i))
          /\ ~is_pmu_enabled(HwCtrl(1, j))
    /\ \A i \in Bank : HwCtrl(1, i) = ctrl_regs(vpmu[1])[i]
====
